---- MODULE Spec2Model ----
(***************************************************************************)
(* Model of the AI Voice Bot WebSocket server (src/client.py) together     *)
(* with the services it imports from src/server.py: the chat completion    *)
(* facade, the voice service with its audio cache, and the chat logger.    *)
(*                                                                         *)
(* Every connection runs one handle_client coroutine.  An action of the    *)
(* model is the code a coroutine runs between two suspension points        *)
(* (awaits on the backend or on the log file); a send on a closed          *)
(* connection raises ConnectionClosed, exactly as websocket.send does.     *)
(***************************************************************************)
EXTENDS Naturals, Integers, Sequences, FiniteSets, TLC

\* ------------------------------------------------------------------ bounds
NumConns == 2
MaxFrames == 2
MaxSessions == 2
MaxTurns == 2
MaxWindowTurns == 7

Conns == 1..NumConns

\* ------------------------------------------------------- program constants
cache_size_limit == 50
HISTORY_WINDOW == 5

None == 0

\* A text is a sequence of characters; " " is the only whitespace character
\* the inputs use.  A JSON value that is not a string is the value NotString.
SP == " "
NotString == <<"#num">>
IsString(v) == v # NotString

WELCOME == <<"w", "e", "l", "c", "o", "m", "e">>
FALLBACK_RESPONSE == <<"I", SP, "a", "p", "o", "l", "o", "g", "i", "z", "e">>
BACKEND_REPLY == <<"o", "k">>
INVALID_JSON == <<"I", "n", "v", "a", "l", "i", "d", SP, "J", "S", "O", "N">>
GENERIC_ERROR == <<"A", "n", SP, "e", "r", "r", "o", "r">>
NO_TEXT == <<"N", "o", SP, "t", "e", "x", "t">>
VOICE_FAILED == <<"F", "a", "i", "l", "e", "d">>
VOICE_ERROR == <<"v", "o", "i", "c", "e", SP, "e", "r", "r", "o", "r">>

\* ------------------------------------------------------------- str.strip()
RECURSIVE lstrip(_)
lstrip(s) == IF s = <<>> THEN <<>>
             ELSE IF Head(s) = SP THEN lstrip(Tail(s)) ELSE s

RECURSIVE rstrip(_)
rstrip(s) == IF s = <<>> THEN <<>>
             ELSE IF s[Len(s)] = SP THEN rstrip(SubSeq(s, 1, Len(s) - 1)) ELSE s

\* variant: the text is used as received
strip_omitted(s) == s

strip(s) == rstrip(lstrip(s))

\* ---------------------------------------------------------- inbound frames
\* enc: "bad" is not valid JSON, "nonobj" is valid JSON that is not an
\* object, "obj" is a JSON object.  type "absent" is an object with no type
\* key.  message / text / voice are the payload fields ("" when absent).
Frame(enc, type, message, text, voice) ==
    [enc |-> enc, type |-> type, message |-> message, text |-> text, voice |-> voice,
     messageId |-> None]

\* the frame with a "messageId" key added by the client
with_messageId(f, id) == [f EXCEPT !.messageId = id]

Kore == <<"K", "o", "r", "e">>
Puck == <<"P", "u", "c", "k">>

\* The frames a client sends: one per path through handle_message.
Frames ==
    {Frame("bad", "absent", <<>>, <<>>, Kore),
     Frame("nonobj", "absent", <<>>, <<>>, Kore),
     Frame("obj", "voice_message", <<"h">>, <<>>, Kore),
     Frame("obj", "message", <<>>, <<>>, Kore),
     Frame("obj", "message", <<SP>>, <<>>, Kore),
     Frame("obj", "absent", <<SP, "h", SP>>, <<>>, Kore),
     Frame("obj", "message", NotString, <<>>, Kore),
     Frame("obj", "voice_request", <<>>, <<>>, Kore),
     with_messageId(Frame("obj", "voice_request", <<>>, <<SP, "h">>, Kore), 7),
     Frame("obj", "voice_request", <<>>, NotString, Kore)}

NoFrame == Frame("none", "absent", <<>>, <<>>, Kore)

\* data.get('type', 'message')
message_type(f) == IF f.type = "absent" THEN "message" ELSE f.type

\* ---------------------------------------------------------- outbound frames
OutFrame(type, message) == [type |-> type, message |-> message]

\* variant: the welcome notice carries the reply type
welcome_message_as_reply == OutFrame("assistant", WELCOME)

\* register_client's welcome notice
welcome_message == OutFrame("system", WELCOME)

\* handle_chat_message's reply
response_message(ai_response) == OutFrame("assistant", ai_response)

\* variant: errors are reported in an ordinary reply frame
ErrorFrame_as_reply(msg) == OutFrame("assistant", msg)

\* the error frames of handle_message and handle_voice_request
ErrorFrame(msg) == OutFrame("error", msg)

\* ------------------------------------------------------------------- state
VARIABLES
    conn,                  \* transport state of each connection: none / open / closed
    inbox,                 \* frames received by the transport, not yet iterated
    out,                   \* frames websocket.send has accepted, per connection
    pc,                    \* position of each handle_client coroutine
    clients,               \* self.clients
    conversation_history,  \* self.conversation_history: client_id -> list of turns
    nextId,                \* source of fresh client ids (uuid4)
    client_id,             \* handle_client's local client_id (None until registered)
    cur,                   \* the frame handle_message is working on
    user_message,          \* handle_chat_message's local user_message
    hist_ref,              \* handle_chat_message's local conversation_history
    log,                   \* the rows of the chat log file
    audio_cache,           \* voice_service.audio_cache, in insertion order
    arrived,               \* history variable: every frame the client sent, in order
    started,               \* history variable: number of handle_message calls begun
    finished,              \* history variable: number of handle_message calls ended
    appended,              \* history variable: turns appended on behalf of each client id
    session_id,            \* history variable: the id register_client allocated
    fx,                    \* history variable: what the current / last frame did
    call                   \* history variable: the last direct call of a server method

vars == <<conn, inbox, out, pc, clients, conversation_history, nextId, client_id,
          cur, user_message, hist_ref, log, audio_cache, arrived, started,
          finished, appended, session_id, fx, call>>

NoFx == [frame |-> NoFrame, hexc |-> FALSE, raised |-> FALSE, sent |-> <<>>,
         recs |-> <<>>, turns |-> 0, backend |-> "none", fin |-> FALSE]

NoCall == [op |-> "none", ws |-> None, id |-> None, raised |-> FALSE, known |-> FALSE,
           before |-> <<>>, prompt |-> <<>>]

Open(c) == conn[c] = "open"

Init ==
    /\ conn = [c \in Conns |-> "none"]
    /\ inbox = [c \in Conns |-> <<>>]
    /\ out = [c \in Conns |-> <<>>]
    /\ pc = [c \in Conns |-> "none"]
    /\ clients = {}
    /\ conversation_history = <<>>
    /\ nextId = 1
    /\ client_id = [c \in Conns |-> None]
    /\ cur = [c \in Conns |-> NoFrame]
    /\ user_message = [c \in Conns |-> <<>>]
    /\ hist_ref = [c \in Conns |-> <<>>]
    /\ log = <<>>
    /\ audio_cache = <<>>
    /\ arrived = [c \in Conns |-> <<>>]
    /\ started = [c \in Conns |-> 0]
    /\ finished = [c \in Conns |-> 0]
    /\ appended = <<>>
    /\ session_id = [c \in Conns |-> None]
    /\ fx = [c \in Conns |-> NoFx]
    /\ call = NoCall

\* ------------------------------------------------------------ ChatLogger
csv_headers == <<"timestamp", "session_id", "message_type", "user_message",
                 "assistant_response", "response_time_ms", "user_ip",
                 "message_length", "voice_generated", "voice_voice_name",
                 "error_message", "client_agent", "processing_status">>

\* variant: only the fields the caller supplied are written
log_entry_supplied_only(chat_data) ==
    LET supplied == SelectSeq(csv_headers, LAMBDA h : h \in DOMAIN chat_data)
    IN [i \in 1..Len(supplied) |-> chat_data[supplied[i]]]

\* log_chat: one row, one cell per header in header order; timestamp,
\* session_id and message_type fall back to a default when missing.
log_entry(chat_data) ==
    [i \in 1..Len(csv_headers) |->
        LET h == csv_headers[i] IN
        IF h \in DOMAIN chat_data THEN chat_data[h]
        ELSE IF h = "timestamp" THEN "now"
        ELSE IF h = "session_id" THEN "unknown"
        ELSE IF h = "message_type" THEN "chat"
        ELSE ""]

\* the dict handle_chat_message passes to log_chat
chat_data(id, text, ai_response) ==
    [timestamp |-> "now", session_id |-> id, message_type |-> "chat",
     user_message |-> text, assistant_response |-> ai_response,
     response_time_ms |-> 1, user_ip |-> "ip", message_length |-> Len(text),
     voice_generated |-> FALSE, voice_voice_name |-> <<>>, error_message |-> "",
     client_agent |-> "unknown", processing_status |-> "success"]

chat_record(c) ==
    chat_data(client_id[c], user_message[c], hist_ref[c][Len(hist_ref[c])].assistant)

\* ------------------------------------------------- registry helper updates
\* unregister_client: discard the connection, delete the history entry.
Discard(c) == clients \ {c}

\* variant: the history entry is kept when the client is unregistered
DeleteHistory_kept(h, id) == h

DeleteHistory(h, id) == [k \in DOMAIN h \ {id} |-> h[k]]

\* conversation_history.get(client_id, [])
history_get(h, id) == IF id \in DOMAIN h THEN h[id] ELSE <<>>

\* self.conversation_history[client_id] = list
history_set(h, id, list) == [k \in DOMAIN h \cup {id} |-> IF k = id THEN list ELSE h[k]]

\* variant: one history list shared by every session
history_key_shared(c) == 1

\* the history key a chat frame of connection c reads and writes
history_key(c) == client_id[c]

\* ------------------------------------------------------------ environment
TotalArrived == LET RECURSIVE Sum(_)
                    Sum(n) == IF n = 0 THEN 0 ELSE Len(arrived[n]) + Sum(n - 1)
                IN Sum(NumConns)

\* a client opens a connection; the transport schedules handle_client
ClientConnect(c) ==
    /\ UNCHANGED call
    /\ conn[c] = "none"
    /\ conn' = [conn EXCEPT ![c] = "open"]
    /\ pc' = [pc EXCEPT ![c] = "start"]
    /\ UNCHANGED <<inbox, out, clients, conversation_history, nextId, client_id, cur,
                   user_message, hist_ref, log, audio_cache, arrived, started,
                   finished, appended, session_id, fx>>

\* a client sends one frame; the transport queues it in arrival order
ClientSend(c, f) ==
    /\ UNCHANGED call
    /\ Open(c)
    /\ TotalArrived < MaxFrames
    /\ inbox' = [inbox EXCEPT ![c] = Append(@, f)]
    /\ arrived' = [arrived EXCEPT ![c] = Append(@, f)]
    /\ UNCHANGED <<conn, out, pc, clients, conversation_history, nextId, client_id,
                   cur, user_message, hist_ref, log, audio_cache, started, finished,
                   appended, session_id, fx>>

\* the client goes away; every later send on the connection raises
ClientClose(c) ==
    /\ UNCHANGED call
    /\ Open(c)
    /\ conn' = [conn EXCEPT ![c] = "closed"]
    /\ UNCHANGED <<inbox, out, pc, clients, conversation_history, nextId, client_id,
                   cur, user_message, hist_ref, log, audio_cache, arrived, started,
                   finished, appended, session_id, fx>>

\* ----------------------------------------------- handle_client / register
\* handle_client up to the first wait for a frame: register_client adds the
\* connection, allocates the id, creates the history and sends the welcome
\* notice.  When the send raises, client_id was never assigned, so the
\* finally block skips unregister_client.
RegisterClient(c) ==
    /\ UNCHANGED call
    /\ pc[c] = "start"
    /\ clients' = clients \cup {c}
    /\ conversation_history' = history_set(conversation_history, nextId, <<>>)
    /\ appended' = history_set(appended, nextId, <<>>)
    /\ nextId' = nextId + 1
    /\ session_id' = [session_id EXCEPT ![c] = nextId]
    /\ IF Open(c)
       THEN /\ out' = [out EXCEPT ![c] = Append(@, welcome_message)]
            /\ client_id' = [client_id EXCEPT ![c] = nextId]
            /\ pc' = [pc EXCEPT ![c] = "recv"]
       ELSE /\ pc' = [pc EXCEPT ![c] = "done"]
            /\ UNCHANGED <<out, client_id>>
    /\ UNCHANGED <<conn, inbox, cur, user_message, hist_ref, log, audio_cache,
                   arrived, started, finished, fx>>

\* the receive loop ends (the connection is closed and nothing is queued);
\* the finally block unregisters the client
LoopEnd(c) ==
    /\ UNCHANGED call
    /\ pc[c] = "recv"
    /\ inbox[c] = <<>>
    /\ conn[c] = "closed"
    /\ pc' = [pc EXCEPT ![c] = "done"]
    /\ clients' = Discard(c)
    /\ conversation_history' = DeleteHistory(conversation_history, client_id[c])
    /\ UNCHANGED <<conn, inbox, out, nextId, client_id, cur, user_message, hist_ref,
                   log, audio_cache, arrived, started, finished, appended, session_id, fx>>

\* ------------------------------------------------------ GeminiVoiceService
\* struct.pack('<I', n) and struct.pack('<H', n)
pack_I_big_endian(n) == <<(n \div 16777216) % 256, (n \div 65536) % 256, (n \div 256) % 256, n % 256>>

pack_I(n) == <<n % 256, (n \div 256) % 256, (n \div 65536) % 256, (n \div 16777216) % 256>>
pack_H(n) == <<n % 256, (n \div 256) % 256>>

convert_pcm_to_wav(pcm_data) ==
    LET channels == 1
        sample_width == 2
        sample_rate == 24000
        frame_rate == sample_rate * channels * sample_width
        data_size == Len(pcm_data)
        file_size == 36 + data_size
    IN  <<82, 73, 70, 70>> \o pack_I(file_size) \o <<87, 65, 86, 69>>
        \o <<102, 109, 116, 32>> \o pack_I(16) \o pack_H(1) \o pack_H(channels)
        \o pack_I(sample_rate) \o pack_I(frame_rate)
        \o pack_H(channels * sample_width) \o pack_H(sample_width * 8)
        \o <<100, 97, 116, 97>> \o pack_I(data_size) \o pcm_data

\* base64.b64encode: the output as 6-bit values, 64 standing for the pad '='
RECURSIVE b64encode(_)
b64encode(b) ==
    IF b = <<>> THEN <<>>
    ELSE IF Len(b) = 1
         THEN <<b[1] \div 4, (b[1] % 4) * 16, 64, 64>>
    ELSE IF Len(b) = 2
         THEN <<b[1] \div 4, (b[1] % 4) * 16 + b[2] \div 16, (b[2] % 16) * 4, 64>>
    ELSE <<b[1] \div 4, (b[1] % 4) * 16 + b[2] \div 16,
           (b[2] % 16) * 4 + b[3] \div 64, b[3] % 64>>
         \o b64encode(SubSeq(b, 4, Len(b)))

\* cache_key = f"{text}_{voice_name}"
cache_key(text, voice_name) == text \o <<"_">> \o voice_name

\* variant: no key is ever found in the cache
CacheKeys_none(cache) == {}

CacheKeys(cache) == {cache[i].key : i \in 1..Len(cache)}
CacheIndex(cache, key) == CHOOSE i \in 1..Len(cache) : cache[i].key = key
CacheValue(cache, key) == cache[CacheIndex(cache, key)].data

\* variant: a new key goes first in the iteration order
CachePut_newest_first(cache, key, data) ==
    IF key \in CacheKeys(cache)
    THEN [cache EXCEPT ![CacheIndex(cache, key)] = [key |-> key, data |-> data]]
    ELSE <<[key |-> key, data |-> data]>> \o cache

\* dict assignment: a present key keeps its position, a new key goes last
CachePut(cache, key, data) ==
    IF key \in CacheKeys(cache)
    THEN [cache EXCEPT ![CacheIndex(cache, key)] = [key |-> key, data |-> data]]
    ELSE Append(cache, [key |-> key, data |-> data])

\* variant: the oldest entry is deleted only above the limit
add_to_cache_above_limit(cache, key, data) ==
    CachePut(IF Len(cache) > cache_size_limit THEN Tail(cache) ELSE cache, key, data)

\* _add_to_cache: at the limit, delete next(iter(cache)) first
add_to_cache(cache, key, data) ==
    CachePut(IF Len(cache) >= cache_size_limit THEN Tail(cache) ELSE cache, key, data)

\* The samples the speech backend returns: they depend on the text and on
\* the voice, one sample per character, the two parts separated by a 0.
Alphabet == <<"_", SP, "a", "b", "h", "k", "K", "o", "r", "e", "P", "u", "c",
              "0", "1", "2", "3", "4", "5", "6", "7", "8", "9">>
Code(ch) == CHOOSE i \in 1..Len(Alphabet) : Alphabet[i] = ch
PCM(text, voice_name) ==
    [i \in 1..Len(text) |-> Code(text[i])] \o <<0>>
    \o [i \in 1..Len(voice_name) |-> Code(voice_name[i])]

VoiceFrame(audio_data, text, voice_name) ==
    [type |-> "voice_response", message |-> text,
     audio_data |-> b64encode(audio_data), voice |-> voice_name]

voice_record(c, text, voice_name, generated, err, status) ==
    [timestamp |-> "now", session_id |-> client_id[c], message_type |-> "voice_request",
     user_message |-> <<>>, assistant_response |-> text, response_time_ms |-> 0,
     user_ip |-> "ip", message_length |-> Len(text), voice_generated |-> generated,
     voice_voice_name |-> voice_name, error_message |-> err,
     client_agent |-> "unknown", processing_status |-> status]

\* ------------------------------------------------------------ handle_message
Types(frames) == [i \in 1..Len(frames) |-> frames[i].type]

\* The sends of one step.  With the connection open they are accepted and the
\* coroutine goes on to nextpc.  With the connection closed the first send
\* raises ConnectionClosed; the send of every except block that catches it
\* raises as well, so the exception leaves handle_message, ends the receive
\* loop, and handle_client's finally block unregisters the client.
\* h is conversation_history as the handler left it, fxn the effects so far,
\* inHandler whether the first send is made by handle_chat_message or
\* handle_voice_request.
Deliver(c, frames, nextpc, h, fxn, inHandler) ==
    IF Open(c) \/ frames = <<>>
    THEN /\ out' = [out EXCEPT ![c] = @ \o frames]
         /\ pc' = [pc EXCEPT ![c] = nextpc]
         /\ clients' = clients
         /\ conversation_history' = h
         /\ fx' = [fx EXCEPT ![c] = [fxn EXCEPT !.sent = @ \o Types(frames),
                                                !.fin = (nextpc = "recv")]]
         /\ finished' = [finished EXCEPT ![c] = IF nextpc = "recv" THEN @ + 1 ELSE @]
    ELSE /\ out' = out
         /\ pc' = [pc EXCEPT ![c] = "done"]
         /\ clients' = Discard(c)
         /\ conversation_history' = DeleteHistory(h, client_id[c])
         /\ fx' = [fx EXCEPT ![c] = [fxn EXCEPT !.raised = TRUE,
                                                !.hexc = @ \/ inHandler,
                                                !.fin = TRUE]]
         /\ finished' = [finished EXCEPT ![c] = @ + 1]

\* variant: handle_message is started as a task instead of being awaited
AtRecv_not_awaited(c) == pc[c] \in {"recv", "chat_wait", "voice_wait"}

\* the receive loop may take the next frame
AtRecv(c) == pc[c] = "recv"

\* the next frame the receive loop yields
NextFrame(c) == Head(inbox[c])

\* handle_message from the arrival of a frame to the handler's first await
\* on a backend (or to its return when it makes none)
HandleMessage(c) ==
    /\ UNCHANGED call
    /\ AtRecv(c)
    /\ inbox[c] # <<>>
    /\ LET f == NextFrame(c)
           fx0 == [NoFx EXCEPT !.frame = f]
           h == conversation_history
       IN
       /\ inbox' = [inbox EXCEPT ![c] = Tail(@)]
       /\ cur' = [cur EXCEPT ![c] = f]
       /\ started' = [started EXCEPT ![c] = @ + 1]
       /\ IF f.enc = "bad"
          THEN \* json.JSONDecodeError
               /\ Deliver(c, <<ErrorFrame(INVALID_JSON)>>, "recv", h, fx0, FALSE)
               /\ UNCHANGED <<user_message, hist_ref>>
          ELSE IF f.enc = "nonobj"
          THEN \* data.get raises AttributeError inside handle_message
               /\ Deliver(c, <<ErrorFrame(GENERIC_ERROR)>>, "recv", h, fx0, FALSE)
               /\ UNCHANGED <<user_message, hist_ref>>
          ELSE IF message_type(f) = "message"
          THEN IF ~IsString(f.message)
               THEN \* .strip() raises inside handle_chat_message
                    /\ Deliver(c, <<ErrorFrame(GENERIC_ERROR)>>, "recv", h,
                               [fx0 EXCEPT !.hexc = TRUE], TRUE)
                    /\ UNCHANGED <<user_message, hist_ref>>
               ELSE IF strip(f.message) = <<>>
               THEN \* if not user_message: return
                    /\ Deliver(c, <<>>, "recv", h, fx0, TRUE)
                    /\ user_message' = [user_message EXCEPT ![c] = <<>>]
                    /\ UNCHANGED hist_ref
               ELSE \* await self.ai_client.generate_response(...)
                    /\ Deliver(c, <<>>, "chat_wait", h, fx0, TRUE)
                    /\ user_message' = [user_message EXCEPT ![c] = strip(f.message)]
                    /\ hist_ref' = [hist_ref EXCEPT ![c] = history_get(h, history_key(c))]
          ELSE IF message_type(f) = "voice_request"
          THEN /\ UNCHANGED <<user_message, hist_ref>>
               /\ IF ~IsString(f.text)
                  THEN \* .strip() raises; the except block sends its error
                       \* frame and then raises on the unbound local text,
                       \* so handle_message sends a second error frame
                       Deliver(c, <<ErrorFrame(VOICE_ERROR), ErrorFrame(GENERIC_ERROR)>>,
                               "recv", h, [fx0 EXCEPT !.hexc = TRUE], TRUE)
                  ELSE IF strip(f.text) = <<>>
                  THEN Deliver(c, <<ErrorFrame(NO_TEXT)>>, "recv", h, fx0, TRUE)
                  ELSE IF cache_key(strip(f.text), f.voice) \in CacheKeys(audio_cache)
                  THEN \* cache hit: generate_speech returns without awaiting
                       Deliver(c, <<VoiceFrame(CacheValue(audio_cache,
                                        cache_key(strip(f.text), f.voice)),
                                        strip(f.text), f.voice)>>,
                               "voice_log_ok", h, [fx0 EXCEPT !.backend = "hit"], TRUE)
                  ELSE Deliver(c, <<>>, "voice_wait", h, fx0, TRUE)
          ELSE \* logger.warning("Unknown message type")
               /\ Deliver(c, <<>>, "recv", h, fx0, FALSE)
               /\ UNCHANGED <<user_message, hist_ref>>
    /\ UNCHANGED <<conn, nextId, client_id, log, audio_cache, arrived, appended,
                   session_id>>

\* -------------------------------------------------------- handle_chat_message
\* generate_response never raises: a failed completion is caught inside it
\* and the fallback apology is returned as the response
generate_response(outcome) == IF outcome = "ok" THEN BACKEND_REPLY ELSE FALLBACK_RESPONSE

\* the backend call returns: append the turn, store the list, send the reply
ChatBackendReturn(c, outcome) ==
    /\ UNCHANGED call
    /\ pc[c] = "chat_wait"
    /\ LET ai_response == generate_response(outcome)
           entry == [user |-> user_message[c], assistant |-> ai_response]
           list == Append(hist_ref[c], entry)
       IN
       /\ hist_ref' = [hist_ref EXCEPT ![c] = list]
       /\ appended' = [appended EXCEPT ![client_id[c]] = Append(@, entry)]
       /\ Deliver(c, <<response_message(ai_response)>>, "chat_log",
                  history_set(conversation_history, history_key(c), list),
                  [fx[c] EXCEPT !.turns = @ + 1, !.backend = outcome], TRUE)
    /\ UNCHANGED <<conn, inbox, nextId, client_id, cur, user_message, log,
                   audio_cache, arrived, started, session_id>>

\* the status handle_chat_message writes into its activity record
chat_status(c) == "success"

\* await self.chat_logger.log_chat({...}); handle_chat_message returns
ChatLog(c) ==
    /\ UNCHANGED call
    /\ pc[c] = "chat_log"
    /\ log' = Append(log, log_entry([chat_record(c) EXCEPT !.processing_status = chat_status(c)]))
    /\ pc' = [pc EXCEPT ![c] = "recv"]
    /\ fx' = [fx EXCEPT ![c].recs = Append(@, chat_status(c)), ![c].fin = TRUE]
    /\ finished' = [finished EXCEPT ![c] = @ + 1]
    /\ UNCHANGED <<conn, inbox, out, clients, conversation_history, nextId, client_id,
                   cur, user_message, hist_ref, audio_cache, arrived, started, appended,
                   session_id>>

\* ------------------------------------------------------- handle_voice_request
\* variant: the cache is written whatever the backend returned
cache_after_stored_always(cache, key, outcome, wav_data) ==
    add_to_cache(cache, key, IF outcome = "audio" THEN wav_data ELSE <<>>)

\* the cache as generate_speech leaves it after a miss: only audio is stored
cache_after(cache, key, outcome, wav_data) ==
    IF outcome = "audio" THEN add_to_cache(cache, key, wav_data) ELSE cache

VoiceOutcomes == {"audio", "none", "raise"}

\* generate_speech after a cache miss: the backend call returns audio, returns
\* a response without audio, or raises; only audio is converted and cached
VoiceBackendReturn(c, outcome) ==
    /\ UNCHANGED call
    /\ pc[c] = "voice_wait"
    /\ LET text == strip(cur[c].text)
           voice_name == cur[c].voice
           wav_data == convert_pcm_to_wav(PCM(text, voice_name))
           fxn == [fx[c] EXCEPT !.backend = outcome]
       IN
       IF outcome = "audio"
       THEN /\ audio_cache' = cache_after(audio_cache, cache_key(text, voice_name),
                                          outcome, wav_data)
            /\ Deliver(c, <<VoiceFrame(wav_data, text, voice_name)>>, "voice_log_ok",
                       conversation_history, fxn, TRUE)
       ELSE /\ audio_cache' = cache_after(audio_cache, cache_key(text, voice_name),
                                          outcome, wav_data)
            /\ Deliver(c, <<ErrorFrame(VOICE_FAILED)>>, "voice_log_err",
                       conversation_history, fxn, TRUE)
    /\ UNCHANGED <<conn, inbox, nextId, client_id, cur, user_message, hist_ref, log,
                   arrived, started, appended, session_id>>

\* await self.chat_logger.log_chat({...}) of the success or the no-audio branch
VoiceLog(c) ==
    /\ UNCHANGED call
    /\ pc[c] \in {"voice_log_ok", "voice_log_err"}
    /\ LET ok == pc[c] = "voice_log_ok"
           status == IF ok THEN "success" ELSE "error"
           err == IF ok THEN "" ELSE "Failed to generate voice"
       IN
       /\ log' = Append(log, log_entry(voice_record(c, strip(cur[c].text), cur[c].voice,
                                                    ok, err, status)))
       /\ fx' = [fx EXCEPT ![c].recs = Append(@, status), ![c].fin = TRUE]
    /\ pc' = [pc EXCEPT ![c] = "recv"]
    /\ finished' = [finished EXCEPT ![c] = @ + 1]
    /\ UNCHANGED <<conn, inbox, out, clients, conversation_history, nextId, client_id,
                   cur, user_message, hist_ref, audio_cache, arrived, started, appended,
                   session_id>>

\* ------------------------------------------------------------- specification
Next ==
    \/ \E c \in Conns : ClientConnect(c)
    \/ \E c \in Conns, f \in Frames : ClientSend(c, f)
    \/ \E c \in Conns : ClientClose(c)
    \/ \E c \in Conns : RegisterClient(c)
    \/ \E c \in Conns : LoopEnd(c)
    \/ \E c \in Conns : HandleMessage(c)
    \/ \E c \in Conns, o \in {"ok", "error"} : ChatBackendReturn(c, o)
    \/ \E c \in Conns : ChatLog(c)
    \/ \E c \in Conns, o \in VoiceOutcomes : VoiceBackendReturn(c, o)
    \/ \E c \in Conns : VoiceLog(c)

Spec == Init /\ [][Next]_vars

TypeOK ==
    /\ \A c \in Conns : pc[c] \in {"none", "start", "recv", "chat_wait", "chat_log",
                                   "voice_wait", "voice_log_ok", "voice_log_err", "done"}
    /\ \A c \in Conns : conn[c] \in {"none", "open", "closed"}
    /\ clients \subseteq Conns
    /\ Len(audio_cache) <= cache_size_limit

\* ------------------------------------------------------------------ claims
IsChat(f) == f.enc = "obj" /\ message_type(f) = "message"
AllSpaces(s) == \A i \in 1..Len(s) : s[i] = SP
IsBlankChat(f) == IsChat(f) /\ IsString(f.message) /\ AllSpaces(f.message)
IsTextChat(f) == IsChat(f) /\ IsString(f.message) /\ ~AllSpaces(f.message)
InHandler(c) == pc[c] \in {"chat_wait", "chat_log", "voice_wait", "voice_log_ok",
                           "voice_log_err"}

\* C1: the frames of one connection are handled one at a time and in arrival
\* order: at most one handle_message call is unfinished, the k-th call works
\* on the k-th frame that arrived, and the frames still queued are exactly
\* the later arrivals, whatever the other connections are doing.
C1_FramesSequentialInOrder ==
    \A c \in Conns :
        /\ started[c] - finished[c] \in {0, 1}
        /\ (started[c] > finished[c]) <=> InHandler(c)
        /\ started[c] >= 1 => fx[c].frame = arrived[c][started[c]]
        /\ InHandler(c) => cur[c] = arrived[c][started[c]]
        /\ inbox[c] = SubSeq(arrived[c], started[c] + 1, Len(arrived[c]))

\* the second frame of a connection is being handled, after the first one
\* finished, while it waits for a backend
C1_Witness ==
    \E c \in Conns : /\ started[c] = 2 /\ finished[c] = 1
                     /\ pc[c] \in {"chat_wait", "voice_wait"}

\* C2: once handle_client has finished, the connection is not in the set of
\* live connections and no history is stored for the session id it was given.
C2_FinishedHandlerLeavesNothing ==
    \A c \in Conns :
        pc[c] = "done" => /\ c \notin clients
                          /\ session_id[c] \notin DOMAIN conversation_history

\* C3: the history stored for a session id consists of exactly the turns that
\* were appended on behalf of that session, and the history handed to the
\* backend for a session is that session's own.
C3_HistoryNotShared ==
    /\ \A id \in DOMAIN conversation_history : conversation_history[id] = appended[id]
    /\ \A c \in Conns : pc[c] = "chat_wait" => hist_ref[c] = appended[client_id[c]]

\* one session has a stored turn while another session's chat frame waits
\* for the backend
C3_Witness ==
    \E c, d \in Conns :
        /\ c # d
        /\ client_id[c] \in DOMAIN conversation_history
        /\ Len(conversation_history[client_id[c]]) >= 1
        /\ pc[d] = "chat_wait"
        /\ client_id[d] \in DOMAIN conversation_history

\* handle_message starts on the head of connection c's queue in this step
Takes(c) == pc[c] = "recv" /\ inbox[c] # <<>> /\ started'[c] = started[c] + 1

\* every session history other than connection c's own is left as it was
OthersHistoryKept(c) ==
    \A id \in DOMAIN conversation_history :
        id # client_id[c] => /\ id \in DOMAIN conversation_history'
                             /\ conversation_history'[id] = conversation_history[id]

\* C4: a chat frame with non-blank text whose backend completion succeeds
\* appends exactly one turn, sends exactly one assistant reply and appends
\* exactly one activity record with status success.
C4_ChatSuccessEffects ==
    \A c \in Conns :
        (fx[c].fin /\ IsTextChat(fx[c].frame) /\ fx[c].backend = "ok")
        => /\ fx[c].turns = 1
           /\ fx[c].sent = <<"assistant">>
           /\ fx[c].recs = <<"success">>

\* C5: a chat frame whose text is empty or only whitespace is ignored: no
\* frame is sent, no record is logged, the backend is not called (the
\* coroutine is back at the receive loop) and no history changes.
C5_BlankChatIgnored ==
    [][\A c \in Conns :
         (Takes(c) /\ IsBlankChat(Head(inbox[c])))
         => /\ out' = out
            /\ log' = log
            /\ conversation_history' = conversation_history
            /\ audio_cache' = audio_cache
            /\ clients' = clients
            /\ pc'[c] = "recv"]_vars

\* a whitespace-only chat frame has been handled
C5_Witness ==
    \E c \in Conns : /\ fx[c].fin /\ pc[c] = "recv"
                     /\ IsChat(fx[c].frame) /\ fx[c].frame.message = <<SP>>

\* C6: when the backend completion fails, the client gets an assistant reply
\* with the fallback apology and the activity record of the frame has
\* processing_status = error.
C6_BackendFailureLoggedAsError ==
    \A c \in Conns :
        (fx[c].fin /\ ~fx[c].raised /\ IsTextChat(fx[c].frame) /\ fx[c].backend = "error")
        => /\ fx[c].sent = <<"assistant">>
           /\ out[c][Len(out[c])].message = FALLBACK_RESPONSE
           /\ fx[c].recs = <<"error">>

\* C7: the first frame a connection is sent is the welcome system notice and
\* no later frame is one; when the first inbound frame is a non-blank chat
\* frame and its handling was not cut short by the connection closing, the
\* second outbound frame is an assistant reply and it is the only frame sent
\* for that inbound frame.
C7_WelcomeThenOneReply ==
    \A c \in Conns :
        /\ out[c] # <<>> => out[c][1].type = "system" /\ out[c][1].message = WELCOME
        /\ \A i \in 2..Len(out[c]) : out[c][i].type # "system"
        /\ (finished[c] >= 1 /\ IsTextChat(arrived[c][1])
              /\ ~(started[c] = 1 /\ fx[c].raised))
           => /\ Len(out[c]) >= 2
              /\ out[c][2].type = "assistant"
              /\ started[c] = 1 => Len(out[c]) = 2

\* a non-blank chat frame was the first frame and has been answered
C7_Witness ==
    \E c \in Conns : /\ started[c] = 1 /\ finished[c] = 1
                     /\ IsTextChat(arrived[c][1])
                     /\ Len(out[c]) = 2

\* C8: a frame that is not valid JSON logs no record and changes neither the
\* cache nor any other connection's frames or history; on an open connection
\* it sends exactly one error frame, leaves every history as it was and goes
\* back to the receive loop; on a closed connection nothing is sent.
C8_MalformedFrameOneError ==
    [][\A c \in Conns :
         (Takes(c) /\ Head(inbox[c]).enc = "bad")
         => /\ log' = log
            /\ audio_cache' = audio_cache
            /\ \A d \in Conns \ {c} : out'[d] = out[d]
            /\ OthersHistoryKept(c)
            /\ IF Open(c)
               THEN /\ out'[c] = Append(out[c], [type |-> "error", message |-> INVALID_JSON])
                    /\ conversation_history' = conversation_history
                    /\ pc'[c] = "recv"
               ELSE out'[c] = out[c]]_vars

\* a malformed frame has been answered with its error frame
C8_Witness ==
    \E c \in Conns : /\ fx[c].fin /\ fx[c].frame.enc = "bad"
                     /\ fx[c].sent = <<"error">>
                     /\ client_id[c] \in DOMAIN conversation_history

\* C9: when handle_chat_message or handle_voice_request raises while the
\* connection is open, one error frame is sent and one activity record with
\* status error is appended for the frame.
C9_HandlerExceptionReported ==
    \A c \in Conns :
        (fx[c].fin /\ fx[c].hexc /\ ~fx[c].raised)
        => /\ fx[c].sent = <<"error">>
           /\ fx[c].recs = <<"error">>

\* C10: no frame makes handle_message raise, so a handle_client that has
\* finished has no frame left unhandled.
C10_FrameNeverEndsConnection ==
    \A c \in Conns :
        /\ ~fx[c].raised
        /\ (pc[c] = "done" /\ client_id[c] # None) => inbox[c] = <<>>

\* C11: when the connection is closed while a chat frame waits for the
\* backend, the call still returns, the handler completes without raising,
\* the turn is appended and the activity record is written.
C11_CloseMidHandlerCompletes ==
    \A c \in Conns :
        (fx[c].fin /\ fx[c].backend \in {"ok", "error"} /\ conn[c] = "closed")
        => /\ ~fx[c].raised
           /\ fx[c].turns = 1
           /\ Len(fx[c].recs) = 1

\* ------------------------------------------- the server's methods called directly
\* The methods of ChatbotWebSocketServer called one at a time on a fresh
\* server, with any connection and any client id, each call running to its
\* end (the backend answers, the connection accepts every send).
\* SpecRegistry mixes register, unregister and chat calls over all ids;
\* SpecWindow lets one session chat until its history is longer than the
\* prompt window.

\* variant: the first HISTORY_WINDOW turns instead of the last
recent_history_oldest(h) ==
    SubSeq(h, 1, IF Len(h) > HISTORY_WINDOW THEN HISTORY_WINDOW ELSE Len(h))

\* conversation_history[-5:]
recent_history(h) ==
    SubSeq(h, IF Len(h) > HISTORY_WINDOW THEN Len(h) - HISTORY_WINDOW + 1 ELSE 1, Len(h))

\* the turns handle_chat_message stores for client id: get(id, []), append, store
append_turn(h, id, entry) == history_set(h, id, Append(history_get(h, id), entry))

\* variant: del conversation_history[client_id] without the membership test
unregister_client_unguarded(cl, h, ws, id) ==
    [clients |-> cl \ {ws}, history |-> DeleteHistory(h, id), raised |-> id \notin DOMAIN h]

\* unregister_client: what it leaves behind and whether it raised
unregister_client(cl, h, ws, id) ==
    [clients |-> cl \ {ws},
     history |-> IF id \in DOMAIN h THEN DeleteHistory(h, id) ELSE h,
     raised |-> FALSE]

\* client ids a caller may pass: the allocated ones and one never allocated
CallIds == 1..(MaxSessions + 1)

\* the utterances sent to the server
Utterances == {<<"a">>, <<SP, "b">>}

\* client_id = await self.register_client(websocket), once per connection
CallRegister(c) ==
    /\ nextId <= MaxSessions
    /\ client_id[c] = None
    /\ client_id' = [client_id EXCEPT ![c] = nextId]
    /\ clients' = clients \cup {c}
    /\ conversation_history' = history_set(conversation_history, nextId, <<>>)
    /\ nextId' = nextId + 1
    /\ out' = [out EXCEPT ![c] = Append(@, welcome_message)]
    /\ call' = [NoCall EXCEPT !.op = "register", !.ws = c, !.id = nextId]
    /\ UNCHANGED <<conn, inbox, pc, cur, user_message, hist_ref, log,
                   audio_cache, arrived, started, finished, appended, session_id, fx>>

\* unregister_client(websocket, client_id) with the id the connection was
\* registered under (closed already or not), or with an id never allocated
\* and a connection never registered
CallUnregister(c, id) ==
    /\ \/ client_id[c] = id
       \/ client_id[c] = None /\ id >= nextId
    /\ LET r == unregister_client(clients, conversation_history, c, id) IN
       /\ clients' = r.clients
       /\ conversation_history' = r.history
       /\ call' = [NoCall EXCEPT !.op = "unregister", !.ws = c, !.id = id,
                                 !.known = (id \in DOMAIN conversation_history),
                                 !.raised = r.raised]
    /\ UNCHANGED <<conn, inbox, out, pc, nextId, client_id, cur, user_message,
                   hist_ref, log, audio_cache, arrived, started, finished, appended,
                   session_id, fx>>

\* handle_chat_message(websocket 1, {"message": message}, id), at most limit times
CallChat(id, message, limit) ==
    /\ Len(log) < limit
    /\ LET text == strip(message)
           before == history_get(conversation_history, id)
           ai_response == generate_response("ok")
           entry == [user |-> text, assistant |-> ai_response]
       IN
       /\ conversation_history' = append_turn(conversation_history, id, entry)
       /\ out' = [out EXCEPT ![1] = Append(@, response_message(ai_response))]
       /\ log' = Append(log, log_entry(chat_data(id, text, ai_response)))
       /\ call' = [NoCall EXCEPT !.op = "chat", !.ws = 1, !.id = id,
                                 !.before = before, !.prompt = recent_history(before)]
    /\ UNCHANGED <<conn, inbox, pc, clients, nextId, client_id, cur, user_message,
                   hist_ref, audio_cache, arrived, started, finished, appended,
                   session_id, fx>>

NextRegistry ==
    \/ \E c \in Conns : CallRegister(c)
    \/ \E c \in Conns, id \in CallIds : CallUnregister(c, id)
    \/ \E id \in CallIds, m \in Utterances : CallChat(id, m, MaxTurns)

SpecRegistry == Init /\ [][NextRegistry]_vars

NextWindow ==
    \/ \E c \in Conns : CallRegister(c)
    \/ \E m \in Utterances : CallChat(1, m, MaxWindowTurns)

SpecWindow == Init /\ [][NextWindow]_vars

\* C12: a turn appended for a client id that is not registered is dropped:
\* no history entry is created for the id and the registry stays as it was.
C12_StaleAppendDropped ==
    [][(call'.op = "chat" /\ call'.id \notin DOMAIN conversation_history)
       => /\ conversation_history' = conversation_history
          /\ clients' = clients]_vars

\* C13: unregistering is idempotent.  No unregister call raises, logs a
\* record or sends a frame; it leaves every other connection in the set of
\* clients and every other id's history as they were; a call for an id that
\* has no history (never allocated, or unregistered before) changes nothing;
\* and unregistering once more after any call changes nothing further.
C13_UnregisterIdempotent ==
    [][call'.op = "unregister" =>
         LET ws == call'.ws
             id == call'.id
             again == unregister_client(clients', conversation_history', ws, id)
         IN
         /\ ~call'.raised
         /\ log' = log
         /\ out' = out
         /\ clients' \ {ws} = clients \ {ws}
         /\ \A k \in DOMAIN conversation_history \ {id} :
               /\ k \in DOMAIN conversation_history'
               /\ conversation_history'[k] = conversation_history[k]
         /\ id \notin DOMAIN conversation_history'
         /\ ws \notin clients'
         /\ ~call'.known => /\ clients' = clients
                            /\ conversation_history' = conversation_history
         /\ again.clients = clients'
         /\ again.history = conversation_history'
         /\ ~again.raised]_vars

\* an id unregistered before is unregistered again while another session
\* is live and has a turn in its history
C13_Witness ==
    /\ call.op = "unregister"
    /\ ~call.known
    /\ call.id < nextId
    /\ \E k \in DOMAIN conversation_history : Len(conversation_history[k]) > 0
    /\ clients # {}

\* C14: the history handed to the backend prompt is the last 5 turns of the
\* session's history in their order, the whole history when it has fewer,
\* and the stored history is not changed by taking the window: after the
\* call it is the history from before followed by the new turn.
C14_PromptIsLastFive ==
    call.op = "chat" =>
        LET b == call.before
            w == call.prompt
            n == Len(b)
            m == IF n < HISTORY_WINDOW THEN n ELSE HISTORY_WINDOW
            stored == history_get(conversation_history, call.id)
        IN
        /\ Len(w) = m
        /\ \A i \in 1..m : w[i] = b[n - m + i]
        /\ Len(stored) = n + 1
        /\ SubSeq(stored, 1, n) = b

\* the prompt is built for a history of six turns that do not all say the same
C14_Witness ==
    /\ call.op = "chat"
    /\ Len(call.before) = HISTORY_WINDOW + 1
    /\ call.before[1] # call.before[HISTORY_WINDOW + 1]
    /\ call.prompt = Tail(call.before)

\* ------------------------------------------------ the audio cache at its limit
\* The server after earlier sessions have filled the audio cache: the cache
\* holds one entry for each of the first n warm-up texts in the voice Kore,
\* oldest first; log and out hold what is written from here on.
Digits == <<"0", "1", "2", "3", "4", "5", "6", "7", "8", "9">>

WarmText(i) == <<"k", Digits[(i \div 10) + 1], Digits[(i % 10) + 1]>>

WarmCache(n) ==
    [i \in 1..n |-> [key |-> cache_key(WarmText(i), Kore),
                     data |-> convert_pcm_to_wav(PCM(WarmText(i), Kore))]]

WarmSizes == {cache_size_limit - 1, cache_size_limit}

\* voice requests: the oldest cached text, and texts and voices not cached
VoiceRequest(text, voice) == Frame("obj", "voice_request", <<>>, text, voice)

CacheFrames ==
    {VoiceRequest(WarmText(1), Kore),
     VoiceRequest(<<"a", "_", "b">>, Kore),
     VoiceRequest(<<"a">>, <<"b", "_">> \o Kore),
     VoiceRequest(<<"a">>, Puck)}

InitCache ==
    /\ conn = [c \in Conns |-> "none"]
    /\ inbox = [c \in Conns |-> <<>>]
    /\ out = [c \in Conns |-> <<>>]
    /\ pc = [c \in Conns |-> "none"]
    /\ clients = {}
    /\ conversation_history = <<>>
    /\ nextId = 1
    /\ client_id = [c \in Conns |-> None]
    /\ cur = [c \in Conns |-> NoFrame]
    /\ user_message = [c \in Conns |-> <<>>]
    /\ hist_ref = [c \in Conns |-> <<>>]
    /\ log = <<>>
    /\ \E n \in WarmSizes : audio_cache = WarmCache(n)
    /\ arrived = [c \in Conns |-> <<>>]
    /\ started = [c \in Conns |-> 0]
    /\ finished = [c \in Conns |-> 0]
    /\ appended = <<>>
    /\ session_id = [c \in Conns |-> None]
    /\ fx = [c \in Conns |-> NoFx]
    /\ call = NoCall

NextCache ==
    \/ \E c \in Conns : ClientConnect(c)
    \/ \E c \in Conns : RegisterClient(c)
    \/ \E c \in Conns, f \in CacheFrames : ClientSend(c, f)
    \/ \E c \in Conns : HandleMessage(c)
    \/ \E c \in Conns, o \in VoiceOutcomes : VoiceBackendReturn(c, o)
    \/ \E c \in Conns : VoiceLog(c)

SpecCache == InitCache /\ [][NextCache]_vars

\* the keys of the cache, oldest insertion first
KeyOrder(cache) == [i \in 1..Len(cache) |-> cache[i].key]

\* C15: whatever voice requests the sessions make, in whatever interleaving,
\* the audio cache never holds more than 50 entries.
C15_CacheAtMostFifty == Len(audio_cache) <= cache_size_limit

\* a synthesis has just stored its audio in a cache that was full
C15_Witness ==
    /\ Len(audio_cache) = cache_size_limit
    /\ \E c \in Conns :
          /\ fx[c].backend = "audio"
          /\ audio_cache[cache_size_limit].key = cache_key(strip(fx[c].frame.text), fx[c].frame.voice)
          /\ cache_key(WarmText(1), Kore) \notin CacheKeys(audio_cache)

\* C16: eviction is first in, first out, whatever is read in between.  A
\* synthesis that stores a key the cache does not hold puts it last and, when
\* the cache is full, removes exactly the oldest key and keeps all others in
\* their order; every other step, cache hits included, leaves the cache and
\* its order as they were.
C16_EvictionIsFifo ==
    [][LET old == KeyOrder(audio_cache)
           new == KeyOrder(audio_cache')
           Stores(c) == /\ pc[c] = "voice_wait"
                        /\ pc'[c] # "voice_wait"
                        /\ fx'[c].backend = "audio"
           key(c) == cache_key(strip(cur[c].text), cur[c].voice)
       IN
       IF \E c \in Conns : Stores(c)
       THEN \A c \in Conns :
               (Stores(c) /\ \A i \in 1..Len(old) : old[i] # key(c))
               => new = (IF Len(old) >= cache_size_limit THEN Tail(old) ELSE old)
                        \o <<key(c)>>
       ELSE audio_cache' = audio_cache]_vars

\* the oldest key was read by a cache hit and is then the one evicted when
\* another session stores a new key in the full cache
C16_Witness ==
    /\ Len(audio_cache) = cache_size_limit
    /\ audio_cache[1].key = cache_key(WarmText(2), Kore)
    /\ \A i \in 1..Len(audio_cache) : audio_cache[i].key # cache_key(WarmText(1), Kore)
    /\ \E c, d \in Conns :
          /\ fx[c].backend = "hit"
          /\ fx[c].fin
          /\ fx[c].frame.text = WarmText(1)
          /\ fx[d].backend = "audio"

\* a voice request whose text is a string that is not blank
IsVoiceRequest(f) ==
    /\ f.enc = "obj"
    /\ message_type(f) = "voice_request"
    /\ IsString(f.text)
    /\ strip(f.text) # <<>>

\* C17 as stated: a voice request with the text and voice of a request made
\* before it is a cache hit and makes no backend call, so that two identical
\* requests make one backend call.
C17_IdenticalRequestOneBackendCall ==
    [][\A c \in Conns :
         (/\ started'[c] = started[c] + 1
          /\ IsVoiceRequest(cur'[c])
          /\ \E d \in Conns : /\ IsVoiceRequest(fx[d].frame)
                               /\ fx[d].frame.text = cur'[c].text
                               /\ fx[d].frame.voice = cur'[c].voice)
         => pc'[c] # "voice_wait"]_vars

\* C17 amended: a voice request whose text and voice have their audio in the
\* cache when the request is handled (stored by an earlier successful
\* request and not evicted since) is a cache hit: it makes no backend call,
\* leaves the cache as it is and is answered with the stored audio.  A
\* request handled while no such entry is stored calls the backend, and a
\* successful synthesis stores its audio under the request's text and voice.
C17_CachedRequestSkipsBackend ==
    [][\A c \in Conns :
         LET f == cur'[c]
             text == strip(f.text)
             key == text \o <<"_">> \o f.voice
             At(cache) == {i \in 1..Len(cache) : cache[i].key = key}
         IN
         /\ (started'[c] = started[c] + 1 /\ IsVoiceRequest(f))
            => IF At(audio_cache) # {}
               THEN /\ pc'[c] # "voice_wait"
                    /\ fx'[c].backend = "hit"
                    /\ audio_cache' = audio_cache
                    /\ Open(c) =>
                         /\ Len(out'[c]) = Len(out[c]) + 1
                         /\ \A i \in At(audio_cache) :
                               out'[c][Len(out'[c])] =
                                   [type |-> "voice_response", message |-> text,
                                    audio_data |-> b64encode(audio_cache[i].data),
                                    voice |-> f.voice]
               ELSE /\ pc'[c] = "voice_wait"
                    /\ fx'[c].backend = "none"
         /\ (pc[c] = "voice_wait" /\ pc'[c] # "voice_wait" /\ fx'[c].backend = "audio")
            => At(audio_cache') # {}]_vars

\* a request repeats the text and voice of a request another session had
\* synthesized, and is answered from the cache
C17_Witness ==
    \E c, d \in Conns :
        /\ c # d
        /\ fx[c].backend = "hit"
        /\ fx[c].fin
        /\ fx[d].backend = "audio"
        /\ fx[d].fin
        /\ fx[d].frame = fx[c].frame
        /\ fx[c].sent = <<"voice_response">>

\* C18: the cache is keyed by the pair of text and voice.  A request is
\* served from the cache only if the entry it is served was stored for
\* exactly its text and exactly its voice: the stored audio is the audio the
\* backend synthesizes for that text in that voice, which differs for any
\* other text or voice.
C18_HitOnlyForSameTextAndVoice ==
    [][\A c \in Conns :
         LET f == cur'[c]
             text == strip(f.text)
         IN
         (/\ started'[c] = started[c] + 1
          /\ IsVoiceRequest(f)
          /\ fx'[c].backend = "hit")
         => \E i \in 1..Len(audio_cache) :
               /\ audio_cache[i].key = cache_key(text, f.voice)
               /\ audio_cache[i].data = convert_pcm_to_wav(PCM(text, f.voice))]_vars

\* C19: the reply to a voice request that carries a messageId carries the
\* same messageId, be it the audio frame of a success or the error frame
\* sent when the backend returned no audio.
C19_ReplyEchoesMessageId ==
    [][\A c \in Conns :
         (/\ IsVoiceRequest(cur'[c])
          /\ cur'[c].messageId # None
          /\ Len(out'[c]) > Len(out[c]))
         => \A i \in (Len(out[c]) + 1)..Len(out'[c]) :
               /\ "messageId" \in DOMAIN out'[c][i]
               /\ out'[c][i].messageId = cur'[c].messageId]_vars

\* str(e) of the exception a failing backend call raises
BACKEND_EXCEPTION == "503 backend unavailable"

\* the failure message of a backend call that returned no audio or raised
failure_message(outcome) ==
    IF outcome = "raise" THEN BACKEND_EXCEPTION ELSE "Failed to generate voice"

\* the cell of a log row under a header
Cell(row, header) == row[CHOOSE i \in 1..Len(csv_headers) : csv_headers[i] = header]

\* C20: every backend failure of a voice synthesis, an exception or a
\* response without audio, is answered with an error frame (the connection
\* being open) and is logged as one record with status error whose error
\* message is the failure message of the backend.
C20_VoiceFailureLoggedWithMessage ==
    [][\A c \in Conns :
         /\ (/\ pc[c] = "voice_wait"
             /\ pc'[c] # "voice_wait"
             /\ fx'[c].backend \in {"none", "raise"}
             /\ Open(c))
            => /\ Len(out'[c]) = Len(out[c]) + 1
               /\ out'[c][Len(out'[c])].type = "error"
               /\ pc'[c] = "voice_log_err"
         /\ (pc[c] = "voice_log_err" /\ pc'[c] = "recv")
            => /\ Len(log') = Len(log) + 1
               /\ Cell(log'[Len(log')], "processing_status") = "error"
               /\ Cell(log'[Len(log')], "session_id") = client_id[c]
               /\ Cell(log'[Len(log')], "error_message") = failure_message(fx[c].backend)]_vars

\* C21: a frame of type voice_message with a message that is not blank is
\* answered: when handle_message has ended for it without raising, it has
\* sent one reply, of type voice_message_response (not the assistant type).
C21_VoiceMessageAnswered ==
    \A c \in Conns :
        (/\ fx[c].fin
         /\ ~fx[c].raised
         /\ fx[c].frame.enc = "obj"
         /\ fx[c].frame.type = "voice_message"
         /\ IsString(fx[c].frame.message)
         /\ strip(fx[c].frame.message) # <<>>)
        => fx[c].sent = <<"voice_message_response">>

\* C28: a cache entry is evicted only by a synthesis that stores a key the
\* cache does not hold while the cache is full; a synthesis that stores a
\* key already present (two sessions missed the same key concurrently)
\* evicts nothing, so a full cache stays at 50 entries.
C28_EvictionOnlyForNewKey ==
    [][LET old == {audio_cache[i].key : i \in 1..Len(audio_cache)}
           new == {audio_cache'[i].key : i \in 1..Len(audio_cache')}
       IN
       (old \ new # {})
       => /\ Len(audio_cache) >= cache_size_limit
          /\ \E c \in Conns :
                /\ pc[c] = "voice_wait"
                /\ pc'[c] # "voice_wait"
                /\ fx'[c].backend = "audio"
                /\ cache_key(strip(cur[c].text), cur[c].voice) \notin old]_vars

\* C29: in every reachable state the registered connections and the ids
\* that hold a history correspond one to one: the two sets have the same
\* size, every registered connection has the history entry of its id, and
\* every history entry belongs to a registered connection.
C29_RegistryMatchesHistories ==
    /\ Cardinality(clients) = Cardinality(DOMAIN conversation_history)
    /\ \A c \in clients : session_id[c] \in DOMAIN conversation_history
    /\ \A k \in DOMAIN conversation_history :
          \E c \in clients : session_id[c] = k
    /\ \A c, d \in clients : session_id[c] = session_id[d] => c = d

\* one session has been unregistered, another is registered and has a turn
C29_Witness ==
    \E c, d \in Conns :
        /\ pc[c] = "done"
        /\ session_id[c] # None
        /\ c \notin clients
        /\ d \in clients
        /\ Len(conversation_history[session_id[d]]) > 0

\* C30: a failed synthesis is not cached.  When the backend raises or
\* returns no audio the cache is left as it was and the request gets no
\* audio; a later request with the same text and voice, nothing having been
\* stored for them, calls the backend again.
C30_FailureNotCached ==
    [][\A c \in Conns :
         /\ (/\ pc[c] = "voice_wait"
             /\ pc'[c] # "voice_wait"
             /\ fx'[c].backend \in {"none", "raise"})
            => /\ audio_cache' = audio_cache
               /\ \A i \in (Len(out[c]) + 1)..Len(out'[c]) :
                     out'[c][i].type # "voice_response"
         /\ (/\ started'[c] = started[c] + 1
             /\ IsVoiceRequest(cur'[c])
             /\ \A i \in 1..Len(audio_cache) :
                   audio_cache[i].key # cache_key(strip(cur'[c].text), cur'[c].voice))
            => /\ pc'[c] = "voice_wait"
               /\ fx'[c].backend = "none"]_vars

\* a request failed, and the same request made again waits for the backend
C30_Witness ==
    \E c, d \in Conns :
        /\ fx[d].fin
        /\ fx[d].backend \in {"none", "raise"}
        /\ IsVoiceRequest(fx[d].frame)
        /\ pc[c] = "voice_wait"
        /\ cur[c].text = fx[d].frame.text
        /\ cur[c].voice = fx[d].frame.voice
        /\ audio_cache = <<>>

\* ------------------------------------------------------------- JsonFlattener
\* A JSON object is the sequence of its items in key order of the dict, the
\* keys distinct; an item is a leaf with a value or holds a nested object.
\* Keys are character sequences.  A flattened mapping is a function from
\* keys to leaf values.
MaxEntries == 3

others == <<conn, inbox, out, pc, clients, conversation_history, nextId, client_id,
            cur, user_message, hist_ref, log, audio_cache, arrived, started,
            finished, appended, session_id, fx>>

JsonKeys == {<<"a">>, <<"b">>, <<"a", ".", "b">>}
JsonLeaves == {1, 2}

LeafItem(k, v) == [k |-> k, leaf |-> TRUE, val |-> v, sub |-> <<>>]
DictItem(k, o) == [k |-> k, leaf |-> FALSE, val |-> 0, sub |-> o]

\* the objects with exactly n items in all, nested ones counted
RECURSIVE JsonObjects(_)
JsonObjects(n) ==
    IF n = 0 THEN {<<>>}
    ELSE UNION {
           {<<it>> \o rest :
               it \in IF j = 1
                      THEN {LeafItem(k, v) : k \in JsonKeys, v \in JsonLeaves}
                           \cup {DictItem(k, <<>>) : k \in JsonKeys}
                      ELSE {DictItem(k, o) : k \in JsonKeys, o \in JsonObjects(j - 1)},
               rest \in JsonObjects(n - j)}
           : j \in 1..n}

DistinctKeys(o) == \A i, j \in 1..Len(o) : o[i].k = o[j].k => i = j

RECURSIVE WellFormed(_)
WellFormed(o) ==
    /\ DistinctKeys(o)
    /\ \A i \in 1..Len(o) : o[i].leaf \/ WellFormed(o[i].sub)

JsonInputs == {o \in UNION {JsonObjects(n) : n \in 0..MaxEntries} : WellFormed(o)}

\* f"{parent_key}{sep}{k}" if parent_key else k, with sep '.'
new_key(parent_key, k) == IF parent_key # <<>> THEN parent_key \o <<".">> \o k ELSE k

\* dict.update / item assignment: the later write wins
dict_update(items, more) == more @@ items

RECURSIVE flatten_dfs(_, _)
flatten_dfs(data, parent_key) ==
    IF data = <<>> THEN <<>>
    ELSE LET it == Head(data)
             nk == new_key(parent_key, it.k)
             first == IF it.leaf THEN nk :> it.val ELSE flatten_dfs(it.sub, nk)
         IN dict_update(first, flatten_dfs(Tail(data), parent_key))

\* the for loop of flatten_bfs over one dequeued dict
RECURSIVE bfs_items(_, _, _, _)
bfs_items(items, parent_key, queue, flattened) ==
    IF items = <<>> THEN [queue |-> queue, flattened |-> flattened]
    ELSE LET it == Head(items)
             nk == new_key(parent_key, it.k)
         IN IF it.leaf
            THEN bfs_items(Tail(items), parent_key, queue,
                           dict_update(flattened, nk :> it.val))
            ELSE bfs_items(Tail(items), parent_key,
                           Append(queue, [dict |-> it.sub, parent_key |-> nk]),
                           flattened)

\* the while loop of flatten_bfs
RECURSIVE bfs_loop(_, _)
bfs_loop(queue, flattened) ==
    IF queue = <<>> THEN flattened
    ELSE LET r == bfs_items(Head(queue).dict, Head(queue).parent_key,
                            Tail(queue), flattened)
         IN bfs_loop(r.queue, r.flattened)

flatten_bfs(data) == bfs_loop(<<[dict |-> data, parent_key |-> <<>>]>>, <<>>)

\* both flatteners called on one object, once on a fresh JsonFlattener
CallFlatten(data) ==
    /\ call = NoCall
    /\ call' = [op |-> "flatten", data |-> data,
                dfs |-> flatten_dfs(data, <<>>), bfs |-> flatten_bfs(data)]
    /\ UNCHANGED others

NextFlatten == \E data \in JsonInputs : CallFlatten(data)

SpecFlatten == Init /\ [][NextFlatten]_vars

\* C22: for every JSON object, whatever its nesting, key names and key
\* order, flatten_dfs and flatten_bfs return mappings with the same keys and
\* the same value under each key.
C22_DfsEqualsBfs ==
    call.op = "flatten" =>
        /\ DOMAIN call.dfs = DOMAIN call.bfs
        /\ \A k \in DOMAIN call.dfs : call.dfs[k] = call.bfs[k]

\* ------------------------------------------------------- convert_pcm_to_wav
\* Inputs: every byte string up to MaxPcmLen over a few byte values, and
\* strings of the lengths at which a size field carries into its next byte.
MaxPcmLen == 4
PcmBytes == {0, 82, 255}
CarryLengths == {219, 220, 256, 65499, 65500, 65536}

RECURSIVE ByteStrings(_)
ByteStrings(n) ==
    IF n = 0 THEN {<<>>}
    ELSE ByteStrings(n - 1)
         \cup {Append(s, b) : s \in {t \in ByteStrings(n - 1) : Len(t) = n - 1},
                              b \in PcmBytes}

PcmInputs == ByteStrings(MaxPcmLen) \cup {[i \in 1..n |-> i % 256] : n \in CarryLengths}

\* convert_pcm_to_wav called once on a byte string
CallWav(pcm_data) ==
    /\ call = NoCall
    /\ call' = [op |-> "wav", pcm_data |-> pcm_data,
                wav_data |-> convert_pcm_to_wav(pcm_data)]
    /\ UNCHANGED others

NextWav == \E pcm_data \in PcmInputs : CallWav(pcm_data)

SpecWav == Init /\ [][NextWav]_vars

MaxAppends == 2

NL == "\n"
QT == "\""

Chars(s) ==
    CASE s = "" -> <<>>
      [] s = "x" -> <<"x">>
      [] s = "l\nr" -> <<"l", NL, "r">>
      [] s = "q\"" -> <<"q", QT>>
      [] s = "now" -> <<"n", "o", "w">>
      [] s = "unknown" -> <<"u", "n", "k", "n", "o", "w", "n">>
      [] s = "chat" -> <<"c", "h", "a", "t">>

\* str(v).replace('"', '""')
RECURSIVE double_quotes(_)
double_quotes(s) ==
    IF s = <<>> THEN <<>>
    ELSE (IF Head(s) = QT THEN <<QT, QT>> ELSE <<Head(s)>>) \o double_quotes(Tail(s))

\* ','.join(f'"{...}"' for h in csv_headers) over the cells from position i on
RECURSIVE join_cells(_, _)
join_cells(row, i) ==
    IF i > Len(row) THEN <<>>
    ELSE (IF i > 1 THEN <<",">> ELSE <<>>)
         \o <<QT>> \o double_quotes(Chars(row[i])) \o <<QT>>
         \o join_cells(row, i + 1)

\* the text log_chat appends for a chat_data dict
csv_line(data) == join_cells(log_entry(data), 1) \o <<NL>>

\* csv.reader on one line, excel dialect, not strict: one character read
\* in a parser state [state, field, fields]
csv_step(p, ch) ==
    IF p.state \in {"start", "start_after"}
    THEN IF ch = QT THEN [p EXCEPT !.state = "quoted"]
         ELSE IF ch = "," THEN [p EXCEPT !.state = "start_after",
                                        !.fields = Append(@, <<>>)]
         ELSE [p EXCEPT !.state = "field", !.field = <<ch>>]
    ELSE IF p.state = "field"
    THEN IF ch = "," THEN [state |-> "start_after", field |-> <<>>,
                          fields |-> Append(p.fields, p.field)]
         ELSE [p EXCEPT !.field = Append(@, ch)]
    ELSE IF p.state = "quoted"
    THEN IF ch = QT THEN [p EXCEPT !.state = "quote_in_quoted"]
         ELSE [p EXCEPT !.field = Append(@, ch)]
    ELSE \* quote_in_quoted
         IF ch = QT THEN [p EXCEPT !.state = "quoted", !.field = Append(@, QT)]
         ELSE IF ch = "," THEN [state |-> "start_after", field |-> <<>>,
                               fields |-> Append(p.fields, p.field)]
         ELSE [p EXCEPT !.state = "field", !.field = Append(@, ch)]

\* the characters lo..hi of s read one after the other (the first half is
\* read to its end before the second half is begun)
RECURSIVE csv_parse(_, _, _, _)
csv_parse(s, lo, hi, p) ==
    IF lo > hi THEN p
    ELSE IF lo = hi THEN csv_step(p, s[lo])
    ELSE LET mid == (lo + hi) \div 2
             q == csv_parse(s, lo, mid, p)
         IN IF q.state = "" THEN q ELSE csv_parse(s, mid + 1, hi, q)

\* the end of the line: the field being read is saved
csv_row(p) == IF p.state = "start" THEN <<>> ELSE Append(p.fields, p.field)

csv_reader(line) ==
    csv_row(csv_parse(line, 1, Len(line), [state |-> "start", field |-> <<>>, fields |-> <<>>]))

IsSpace(ch) == ch \in {SP, NL}

\* str.strip() of whitespace, newlines included
RECURSIVE strip_ws(_)
strip_ws(s) ==
    IF s = <<>> THEN <<>>
    ELSE IF IsSpace(Head(s)) THEN strip_ws(Tail(s))
    ELSE IF IsSpace(s[Len(s)]) THEN strip_ws(SubSeq(s, 1, Len(s) - 1))
    ELSE s

\* str.split('\n'): one character read with the lines so far
split_step(p, ch) ==
    IF ch = NL THEN [lines |-> Append(p.lines, p.line), line |-> <<>>]
    ELSE [p EXCEPT !.line = Append(@, ch)]

RECURSIVE split_run(_, _, _, _)
split_run(s, lo, hi, p) ==
    IF lo > hi THEN p
    ELSE IF lo = hi THEN split_step(p, s[lo])
    ELSE LET mid == (lo + hi) \div 2
             q == split_run(s, lo, mid, p)
         IN IF Len(q.line) < 0 THEN q ELSE split_run(s, mid + 1, hi, q)

split_lines(s) ==
    LET p == split_run(s, 1, Len(s), [lines |-> <<>>, line |-> <<>>])
    IN Append(p.lines, p.line)

\* content.strip().split('\n')[1:] for a file with the header line and body
data_lines(body) == IF strip_ws(body) = <<>> THEN <<>> ELSE split_lines(strip_ws(body))

RECURSIVE parse_rows(_)
parse_rows(lines) ==
    IF lines = <<>> THEN <<>>
    ELSE (IF strip_ws(Head(lines)) # <<>> THEN <<csv_reader(Head(lines))>> ELSE <<>>)
         \o parse_rows(Tail(lines))

reversed(s) == [i \in 1..Len(s) |-> s[Len(s) + 1 - i]]

\* get_recent_logs(limit) on a file with the header line and body
get_recent_logs(body, limit) ==
    LET lines == data_lines(body)
        n == Len(lines)
        recent_lines == IF n > limit
                        THEN SubSeq(lines, IF limit = 0 THEN 1 ELSE n - limit + 1, n)
                        ELSE lines
    IN reversed(parse_rows(recent_lines))

\* the dicts passed to log_chat: complete records, an error record that
\* supplies few fields, and one that supplies no field of the schema
FullRecord(text) ==
    [h \in {csv_headers[i] : i \in 1..Len(csv_headers)} |->
        IF h = "user_message" THEN text
        ELSE IF h = "error_message" THEN "" ELSE "x"]

PartialRecord == [message_type |-> "x", error_message |-> "q\"", processing_status |-> "x"]

StrayRecord == [note |-> "x"]

LogInputs == {FullRecord("x"), FullRecord("q\""), FullRecord("l\nr"), PartialRecord,
              StrayRecord}

\* await log_chat(data) on a log file holding the records logged before
CallLogChat(data) ==
    /\ call.op \in {"none", "log_chat", "recent"}
    /\ Len(IF call.op = "none" THEN <<>> ELSE call.written) < MaxAppends
    /\ LET body == IF call.op = "none" THEN <<>> ELSE call.body
           written == IF call.op = "none" THEN <<>> ELSE call.written
       IN call' = [op |-> "log_chat", body |-> body \o csv_line(data),
                   written |-> Append(written, data), limit |-> 0, result |-> <<>>]
    /\ UNCHANGED others

\* await get_recent_logs(limit)
CallRecent(limit) ==
    /\ call.op \in {"none", "log_chat", "recent"}
    /\ LET body == IF call.op = "none" THEN <<>> ELSE call.body
           written == IF call.op = "none" THEN <<>> ELSE call.written
       IN call' = [op |-> "recent", body |-> body, written |-> written,
                   limit |-> limit, result |-> get_recent_logs(body, limit)]
    /\ UNCHANGED others

NextLog ==
    \/ \E data \in LogInputs : CallLogChat(data)
    \/ \E limit \in 0..(MaxAppends + 1) : CallRecent(limit)

SpecLog == Init /\ [][NextLog]_vars

\* the text one log_chat call added to the file, parsed as one CSV record
AddedFields ==
    LET prev == IF call.op = "none" THEN <<>> ELSE call.body
        added == SubSeq(call'.body, Len(prev) + 1, Len(call'.body))
    IN csv_reader(SubSeq(added, 1, Len(added) - 1))

\* C24 as stated: every record log_chat appends has exactly the fields of
\* the schema in the order of the schema, and a field the caller did not
\* supply is written as an empty value.
C24_MissingFieldWrittenEmpty ==
    [][call'.op = "log_chat" =>
         LET data == call'.written[Len(call'.written)]
         IN
         /\ Len(AddedFields) = Len(csv_headers)
         /\ \A i \in 1..Len(csv_headers) :
               AddedFields[i] = Chars(IF csv_headers[i] \in DOMAIN data
                                      THEN data[csv_headers[i]] ELSE "")]_vars

\* C24 amended: every record log_chat appends is added at the end of the
\* file, ends with a newline and has exactly the fields of the schema in the
\* order of the schema; a field the caller did not supply is written as an empty value,
\* except timestamp, session_id and message_type, which are written as the
\* current time, 'unknown' and 'chat'.
C24_FixedSchemaWithDefaults ==
    [][call'.op = "log_chat" =>
         LET data == call'.written[Len(call'.written)]
             prev == IF call.op = "none" THEN <<>> ELSE call.body
         IN
         /\ SubSeq(call'.body, 1, Len(prev)) = prev
         /\ call'.body[Len(call'.body)] = NL
         /\ Len(AddedFields) = Len(csv_headers)
         /\ \A i \in 1..Len(csv_headers) :
               LET h == csv_headers[i] IN
               AddedFields[i] = Chars(IF h \in DOMAIN data THEN data[h]
                                      ELSE IF h = "timestamp" THEN "now"
                                      ELSE IF h = "session_id" THEN "unknown"
                                      ELSE IF h = "message_type" THEN "chat"
                                      ELSE "")]_vars

\* an error record that supplies three fields was appended after a record
C24_Witness ==
    /\ call.op = "log_chat"
    /\ Len(call.written) = 2
    /\ call.written[2] = PartialRecord

\* C25: after any appends, get_recent_logs(n) returns the min(n, number of
\* appended records) records appended last, the most recent first, each
\* with the fields of the schema equal to those log_chat wrote, for n >= 0.
C25_RecentReturnsLastRecords ==
    call.op = "recent" =>
        LET k == Len(call.written)
            m == IF call.limit < k THEN call.limit ELSE k
        IN
        /\ Len(call.result) = m
        /\ \A i \in 1..m :
              LET row == log_entry(call.written[k + 1 - i]) IN
              /\ Len(call.result[i]) = Len(csv_headers)
              /\ \A j \in 1..Len(csv_headers) : call.result[i][j] = Chars(row[j])

\* ------------------------------------------------------------ GoogleSTTService
\* A transcript is the sequence of its words (text.split()); the confidence
\* is in hundredths.  The backend returns a best alternative, no result, or
\* raises.
MaxWords == 2

CONFIDENCE_THRESHOLD == 70

filler_words == {"um", "uh", "hmm"}

SttWords == {"um", "Uh", "hi"}

\* str.lower()
lower(word) == IF word = "Uh" THEN "uh" ELSE word

RECURSIVE Transcripts(_)
Transcripts(n) ==
    IF n = 0 THEN {<<>>}
    ELSE Transcripts(n - 1)
         \cup {Append(t, w) : t \in {u \in Transcripts(n - 1) : Len(u) = n - 1},
                              w \in SttWords}

SttOutcomes ==
    {[kind |-> "raise", text |-> <<>>, confidence |-> 0],
     [kind |-> "no_results", text |-> <<>>, confidence |-> 0]}
    \cup {[kind |-> "results", text |-> t, confidence |-> c] :
            t \in Transcripts(MaxWords), c \in {0, 30, 69, 70, 95}}

\* [word for word in text.split() if word.lower() not in filler_words]
cleaned(text) == SelectSeq(text, LAMBDA word : lower(word) \notin filler_words)

\* transcribe_audio(audio_data, confidence_threshold): the dict returned;
\* error "" stands for a dict without an error key
transcribe_audio(client, outcome, confidence_threshold) ==
    IF ~client
    THEN [raw_text |-> <<>>, cleaned_text |-> <<>>, confidence |-> 0,
          error |-> "STT service is not configured."]
    ELSE IF outcome.kind = "raise"
    THEN [raw_text |-> <<>>, cleaned_text |-> <<>>, confidence |-> 0,
          error |-> "str(e)"]
    ELSE IF outcome.kind = "results"
    THEN [raw_text |-> outcome.text, cleaned_text |-> cleaned(outcome.text),
          confidence |-> outcome.confidence, error |-> ""]
    ELSE [raw_text |-> <<>>, cleaned_text |-> <<>>, confidence |-> 0, error |-> ""]

CallTranscribe(client, outcome) ==
    /\ call = NoCall
    /\ call' = [op |-> "transcribe", client |-> client, outcome |-> outcome,
                result |-> transcribe_audio(client, outcome, CONFIDENCE_THRESHOLD)]
    /\ UNCHANGED others

NextStt == \E client \in BOOLEAN, outcome \in SttOutcomes : CallTranscribe(client, outcome)

SpecStt == Init /\ [][NextStt]_vars

\* C26: a transcription is rejected whenever its cleaned text is empty or
\* its confidence is below 0.7: a result returned without an error has a
\* cleaned text that is not empty and a confidence of at least 0.7.
C26_LowConfidenceRejected ==
    (call.op = "transcribe" /\ call.result.error = "")
    => /\ call.result.cleaned_text # <<>>
       /\ call.result.confidence >= 70

\* ------------------------------------------------- GeminiClient.smart_summarize
\* One action per backend call; a reply is the number of words of its text
\* (len(text.split())) or an exception.  call.calls is the trace of the calls
\* issued so far.
MaxSummaryWords == 301

WORD_LIMIT == 300

SummaryTexts == {"x", "now", "chat"}

Replies == {[raised |-> TRUE, words |-> 0]}
           \cup {[raised |-> FALSE, words |-> n] : n \in {5, WORD_LIMIT, MaxSummaryWords}}

ShortReplies == {[raised |-> TRUE, words |-> 0]}
                \cup {[raised |-> FALSE, words |-> n] : n \in {1, 5}}

NoResult == [summary |-> 0, sentiment |-> 0, key_facts |-> 0]

issued(kind, reply) == [kind |-> kind, raised |-> reply.raised, words |-> reply.words]

\* the except branch: log and return None
summarize_failed(c, kind, reply) ==
    [c EXCEPT !.pc = "done", !.calls = Append(@, issued(kind, reply)),
              !.returned = "none"]

\* the return statement
summarize_return(c) ==
    [c EXCEPT !.pc = "done", !.returned = "dict",
              !.result = [summary |-> c.summary, sentiment |-> c.sentiment,
                          key_facts |-> c.facts]]

needs_resummarize_at_limit(summary) == summary >= WORD_LIMIT

\* if len(summary.split()) > 300
needs_resummarize(summary) == summary > WORD_LIMIT

SummarizeStart(text) ==
    /\ call = NoCall
    /\ call' = [op |-> "summarize", pc |-> "summary", text |-> text, calls |-> <<>>,
                summary |-> 0, sentiment |-> 0, facts |-> 0,
                returned |-> "no", result |-> NoResult]
    /\ UNCHANGED others

SummaryCall(reply) ==
    /\ call.op = "summarize" /\ call.pc = "summary"
    /\ call' = IF reply.raised THEN summarize_failed(call, "summary", reply)
               ELSE [call EXCEPT !.pc = "sentiment", !.summary = reply.words,
                                 !.calls = Append(@, issued("summary", reply))]
    /\ UNCHANGED others

SentimentCall(reply) ==
    /\ call.op = "summarize" /\ call.pc = "sentiment"
    /\ call' = IF reply.raised THEN summarize_failed(call, "sentiment", reply)
               ELSE [call EXCEPT !.pc = "facts", !.sentiment = reply.words,
                                 !.calls = Append(@, issued("sentiment", reply))]
    /\ UNCHANGED others

FactsCall(reply) ==
    /\ call.op = "summarize" /\ call.pc = "facts"
    /\ call' = IF reply.raised THEN summarize_failed(call, "facts", reply)
               ELSE LET c == [call EXCEPT !.facts = reply.words,
                                          !.calls = Append(@, issued("facts", reply))]
                    IN IF needs_resummarize(c.summary)
                       THEN [c EXCEPT !.pc = "resummarize"]
                       ELSE summarize_return(c)
    /\ UNCHANGED others

ResummarizeCall(reply) ==
    /\ call.op = "summarize" /\ call.pc = "resummarize"
    /\ call' = IF reply.raised THEN summarize_failed(call, "resummarize", reply)
               ELSE summarize_return(
                        [call EXCEPT !.summary = reply.words,
                                     !.calls = Append(@, issued("resummarize", reply))])
    /\ UNCHANGED others

NextSummarize ==
    \/ \E text \in SummaryTexts : SummarizeStart(text)
    \/ \E reply \in Replies : SummaryCall(reply)
    \/ \E reply \in ShortReplies : SentimentCall(reply)
    \/ \E reply \in ShortReplies : FactsCall(reply)
    \/ \E reply \in Replies : ResummarizeCall(reply)

SpecSummarize == Init /\ [][NextSummarize]_vars

CallKinds(c) == [i \in 1..Len(c.calls) |-> c.calls[i].kind]

IsPrefixOf(s, t) == Len(s) <= Len(t) /\ SubSeq(t, 1, Len(s)) = s

AnyRaised(c) == \E i \in 1..Len(c.calls) : c.calls[i].raised

Condensations(c) == Cardinality({i \in 1..Len(c.calls) : c.calls[i].kind = "resummarize"})

\* the summary as the summarization call returned it
FirstSummaryWords(c) ==
    LET at == {i \in 1..Len(c.calls) : c.calls[i].kind = "summary"}
    IN IF at = {} THEN 0 ELSE c.calls[CHOOSE i \in at : TRUE].words

\* C27 as stated: the calls are issued in the order sentiment, key facts,
\* summary, then one condensation call exactly when the summary has more
\* than 300 words, and a failed call leaves nothing returned.
C27_SentimentFactsSummaryOrder ==
    call.op = "summarize"
    => /\ IsPrefixOf(CallKinds(call), <<"sentiment", "facts", "summary", "resummarize">>)
       /\ (call.pc = "done" /\ ~AnyRaised(call))
          => (Condensations(call) = 1 <=> FirstSummaryWords(call) > WORD_LIMIT)
       /\ AnyRaised(call) => call.returned = "none"

\* C27 amended: the calls are issued in the order summary, sentiment, key
\* facts; when these three succeed, one condensation call follows exactly
\* when the summary has more than 300 words (never more than one); a failed
\* call ends the pipeline with nothing returned.
C27_SummarySentimentFactsOrder ==
    call.op = "summarize"
    => /\ IsPrefixOf(CallKinds(call), <<"summary", "sentiment", "facts", "resummarize">>)
       /\ (call.pc = "done" /\ Len(call.calls) >= 3 /\ ~call.calls[3].raised)
          => (Condensations(call) = 1 <=> FirstSummaryWords(call) > WORD_LIMIT)
       /\ (call.pc = "resummarize") => FirstSummaryWords(call) > WORD_LIMIT
       /\ AnyRaised(call) => (call.pc = "done" /\ call.returned = "none")
       /\ call.returned = "dict" => (call.pc = "done" /\ ~AnyRaised(call))

C27_Witness ==
    /\ call.op = "summarize" /\ call.returned = "dict"
    /\ Len(call.calls) = 4 /\ call.result.summary = 5

====
